---- MODULE Spec2Model ----
(***************************************************************************)
(* apache-autoindex-parse: the traversal engine (src/traverse.ts) and the  *)
(* format inferencer (src/index.ts).                                       *)
(*                                                                         *)
(* Strings are sequences of tokens.  The token "/" is the one-character    *)
(* separator; every other token stands for a run of characters that        *)
(* neither starts nor ends with "/", so startsWith("/"), endsWith("/"),    *)
(* slice(1) and slice(0, -1) act on tokens exactly as on characters.       *)
(* Displayed names are written one character per token, so slice(0, -1)    *)
(* drops the last token of a name as well.                                 *)
(* A fetched page is a sequence of blocks (<ul>, <pre>, <table>), each     *)
(* holding its rows in document order: a row is an <li>, a line of a <pre> *)
(* or a <tr>, with its anchor (href and displayed text) and, in a <pre> or *)
(* <table>, the alt of its icon ("none" without icon), the text of its     *)
(* date column and whether it carries an <hr> or <th>.  A date text of     *)
(* kind "iso" reads yyyy-mm-dd hh:mm and stands for the wall-clock minute  *)
(* it names; timestamps are counted in minutes.                            *)
(***************************************************************************)
EXTENDS Bags, FiniteSets, Integers, Sequences, TLC

VARIABLES
    rootUrl,    \* traverse(rootUrl, options): the URL given by the caller
    options,    \* which observer callbacks the caller configured
    calls,      \* the traverseInternal invocations, by position in the tree
    fetched,    \* bag of the URLs handed to fetch
    cbCalls,    \* bag of the observer invocations made so far
    html,       \* inferFormat(html), parse(html, format): the markup given
    inferred,   \* what inferFormat returned for html (string markup)
    inferredDom, \* what inferFormat returned for html (parsed document)
    formatArg,  \* parse(html, format): the format given, "none" when omitted
    zone,       \* minutes the local time of the process is ahead of UTC
    parsed,     \* what parse returned for html (string markup)
    parsedDom,  \* what parse returned for html (parsed document)
    given,      \* generateAutoIndexHtml(entries, format, options): its arguments
    runs        \* parse(html, {format, basePath}): the results, by basePath

inferVars == <<html, inferred, inferredDom>>

parseVars == <<formatArg, zone, parsed, parsedDom, given, runs>>

traverseVars == <<rootUrl, options, calls, fetched, cbCalls>>

vars == <<rootUrl, options, calls, fetched, cbCalls, html, inferred, inferredDom,
          formatArg, zone, parsed, parsedDom, given, runs>>

-----------------------------------------------------------------------------
(* Bounds *)

MaxRows == 2     \* anchors per fetched listing
MaxCalls == 2    \* traverseInternal invocations per traversal
MaxEntries == 4  \* entries parsed per traversal, all listings together

-----------------------------------------------------------------------------
(* String helpers *)

Max(S) == CHOOSE x \in S : \A y \in S : y <= x

Min(S) == CHOOSE x \in S : \A y \in S : x <= y

startsWithSlash(s) == Len(s) > 0 /\ s[1] = "/"

endsWithSlash(s) == Len(s) > 0 /\ s[Len(s)] = "/"

\* a buggy trimTrailingSlash that leaves the path as it is
trimTrailingSlashNever(path) == path

trimTrailingSlash(path) ==
    IF path = <<"/">> THEN path
    ELSE IF endsWithSlash(path) THEN SubSeq(path, 1, Len(path) - 1) ELSE path

trimLeadingSlash(path) ==
    IF startsWithSlash(path) THEN SubSeq(path, 2, Len(path)) ELSE path

RECURSIVE trimStart(_)
trimStart(s) ==
    IF Len(s) > 0 /\ s[1] = " " THEN trimStart(Tail(s)) ELSE s

RECURSIVE trimEnd(_)
trimEnd(s) ==
    IF Len(s) > 0 /\ s[Len(s)] = " " THEN trimEnd(SubSeq(s, 1, Len(s) - 1)) ELSE s

trim(s) == trimEnd(trimStart(s))

\* the anchors of the blocks with one of the tags, in document order
RECURSIVE anchorsOf(_, _)
anchorsOf(page, tags) ==
    IF page = <<>> THEN <<>>
    ELSE (IF Head(page).tag \in tags THEN Head(page).links ELSE <<>>)
            \o anchorsOf(Tail(page), tags)

-----------------------------------------------------------------------------
(* parse, list layout *)

Undefined == "undefined"

ParentDirectory == <<"Parent Directory">>

\* lastModified: undefined
NoTime == <<>>

\* a buggy scan that hands the matches over last one first
liAnchorsReversed(page) ==
    LET as == anchorsOf(page, {"ul"})
    IN  [i \in 1..Len(as) |-> as[Len(as) + 1 - i]]

\* the <li><a href="...">...</a></li> matches of the page, in document order
liAnchors(page) == anchorsOf(page, {"ul"})

\* a buggy parseF0 that compares the untrimmed link text with the label
parseF0Untrimmed(page) ==
    LET Kept(a) == ~(a.href = <<>> \/ a.text = <<>> \/ a.text = ParentDirectory)
        EntryOf(a) ==
            [type |-> IF endsWithSlash(a.href) THEN "directory" ELSE "file",
             name |-> trimTrailingSlash(trim(a.text)),
             path |-> trimTrailingSlash(a.href),
             lastModified |-> NoTime]
        kept == SelectSeq(liAnchors(page), Kept)
    IN  [i \in 1..Len(kept) |-> EntryOf(kept[i])]

parseF0(page) ==
    LET Kept(a) == ~(a.href = <<>> \/ a.text = <<>> \/ trim(a.text) = ParentDirectory)
        EntryOf(a) ==
            [type |-> IF endsWithSlash(a.href) THEN "directory" ELSE "file",
             name |-> trimTrailingSlash(trim(a.text)),
             path |-> trimTrailingSlash(a.href),
             lastModified |-> NoTime]
        kept == SelectSeq(liAnchors(page), Kept)
    IN  [i \in 1..Len(kept) |-> EntryOf(kept[i])]

-----------------------------------------------------------------------------
(* parse, preformatted and table layouts *)

\* new Date(text).getTime() of a date text in the local time zone
localTime(date, z) == IF date.kind = "iso" THEN <<date.minute - z>> ELSE NoTime

\* the date of the text after the link: the first yyyy-mm-dd hh:mm in it
dateAfterLink(date, z) == IF date.kind = "iso" THEN localTime(date, z) ELSE NoTime

parseF1(page, z) ==
    LET pres == {b \in DOMAIN page : page[b].tag = "pre"}
        links == IF pres = {} THEN <<>> ELSE page[Min(pres)].links
        Kept(a) == ~(\/ a.href = <<>>
                     \/ a.text = <<>>
                     \/ trim(a.text) = ParentDirectory
                     \/ a.href[1] = "?")
        EntryOf(a) ==
            [type |-> IF endsWithSlash(a.href) THEN "directory" ELSE "file",
             name |-> trimTrailingSlash(trim(a.text)),
             path |-> trimTrailingSlash(a.href),
             lastModified |-> dateAfterLink(a.date, z)]
        kept == SelectSeq(links, Kept)
    IN  [i \in 1..Len(kept) |-> EntryOf(kept[i])]

\* the text of the date cell, tags removed and trimmed
dateCell(date, z) == IF date.kind \in {"none", "nbsp"} THEN NoTime ELSE localTime(date, z)

parseF2(page, z) ==
    LET rows == anchorsOf(page, {"table"})
        Kept(a) == ~(\/ a.hr
                     \/ a.alt = "[PARENTDIR]"
                     \/ a.href = <<>>
                     \/ a.text = <<>>
                     \/ a.href = <<"/">>
                     \/ trim(a.text) = ParentDirectory
                     \/ trim(a.text) = <<>>)
        EntryOf(a) ==
            [type |-> IF a.alt = "[DIR]" \/ endsWithSlash(a.href) THEN "directory" ELSE "file",
             name |-> trimTrailingSlash(trim(a.text)),
             path |-> trimTrailingSlash(a.href),
             lastModified |-> dateCell(a.date, z)]
        kept == SelectSeq(rows, Kept)
    IN  [i \in 1..Len(kept) |-> EntryOf(kept[i])]

-----------------------------------------------------------------------------
(* inferFormat *)

Digits == {"0", "1", "2", "3", "4", "5", "6", "7", "8", "9"}

\* `F${digit}`
FormatTag(d) ==
    CASE d = "0" -> "F0" [] d = "1" -> "F1" [] d = "2" -> "F2" [] d = "3" -> "F3"
      [] d = "4" -> "F4" [] d = "5" -> "F5" [] d = "6" -> "F6" [] d = "7" -> "F7"
      [] d = "8" -> "F8" [] d = "9" -> "F9"

\* every anchor of the markup, those in the raw text of a <pre> included
allAnchors(page) == anchorsOf(page, {"ul", "pre", "table"})

hasTag(page, tag) == \E b \in DOMAIN page : page[b].tag = tag

\* positions where href="[^"]*[?&]F=(\d) can end its [?&]
formatParamAt(href) ==
    {k \in 1..(Len(href) - 2) :
        href[k] \in {"?", "&"} /\ href[k + 1] = "F=" /\ href[k + 2] \in Digits}

\* string markup: one regular expression over the whole text, then the
\* structure
inferFormat(page) ==
    LET anchors == allAnchors(page)
        hits == {a \in DOMAIN anchors : formatParamAt(anchors[a].href) # {}}
    IN  IF hits # {}
        THEN LET href == anchors[Min(hits)].href
             IN  FormatTag(href[Max(formatParamAt(href)) + 2])
        ELSE IF hasTag(page, "pre") THEN "F1"
        ELSE IF hasTag(page, "table") THEN "F2"
        ELSE "F0"

parse(page, format, z) ==
    IF page = <<>> THEN <<>>
    ELSE LET f == IF format = "none" THEN inferFormat(page) ELSE format
         IN  IF f = "F0" THEN parseF0(page)
             ELSE IF f = "F1" THEN parseF1(page, z)
             ELSE IF f = "F2" THEN parseF2(page, z)
             ELSE <<>>

\* positions where /F=(\d)/ matches
formatMatchAt(href) ==
    {k \in 1..(Len(href) - 1) : href[k] = "F=" /\ href[k + 1] \in Digits}

\* parsed document: the anchors of the first <pre>'s raw text when there is
\* a <pre>, the live anchors otherwise
inferFormatDom(page) ==
    LET pres == {b \in DOMAIN page : page[b].tag = "pre"}
        links == IF pres # {} THEN page[Min(pres)].links ELSE allAnchors(page)
        hrefs == SelectSeq([i \in 1..Len(links) |-> links[i].href],
                           LAMBDA h : Len(h) > 0 /\ h[1] = "?")
        hits == {i \in DOMAIN hrefs : formatMatchAt(hrefs[i]) # {}}
    IN  IF hits # {}
        THEN LET href == hrefs[Min(hits)]
             IN  FormatTag(href[Min(formatMatchAt(href)) + 1])
        ELSE "F0"

-----------------------------------------------------------------------------
(* parse, parsed document *)

\* name.slice(0, -1)
sliceLast(name) ==
    IF name = <<>> THEN name
    ELSE IF name[Len(name)] = "..>" THEN Append(SubSeq(name, 1, Len(name) - 1), "..")
    ELSE SubSeq(name, 1, Len(name) - 1)

\* an escape that is no UTF-8 sequence: decodeURIComponent raises URIError
BadEscape == "%E0%A4%A"

\* decodeURIComponent(href), for an href it does not raise on
decodeURIComponent(href) == [k \in 1..Len(href) |-> IF href[k] = "%41" THEN "A" ELSE href[k]]

\* decodedHref.replace(/\/$/, "").split("/").pop()
lastSegment(path) ==
    LET p == IF endsWithSlash(path) THEN SubSeq(path, 1, Len(path) - 1) ELSE path
        slashes == {k \in 1..Len(p) : p[k] = "/"}
    IN  IF slashes = {} THEN p ELSE SubSeq(p, Max(slashes) + 1, Len(p))

parseF0Dom(page) ==
    LET uls == {b \in DOMAIN page : page[b].tag = "ul"}
        rows == IF uls = {} THEN <<>> ELSE page[Min(uls)].links
        Kept(a) == trim(a.text) # ParentDirectory
        EntryOf(a) ==
            IF endsWithSlash(a.href)
            THEN [type |-> "directory", name |-> sliceLast(trim(a.text)), path |-> a.href,
                  lastModified |-> NoTime, children |-> <<>>]
            ELSE [type |-> "file", name |-> trim(a.text), path |-> a.href,
                  lastModified |-> NoTime]
        kept == SelectSeq(rows, Kept)
    IN  [i \in 1..Len(kept) |-> EntryOf(kept[i])]

\* the links of the <pre> lines that parseF1 makes entries of
linesF1Dom(page) ==
    LET Kept(a) == ~(\/ a.hr
                     \/ a.href = <<>>
                     \/ a.href[1] = "?"
                     \/ trim(a.text) = ParentDirectory
                     \/ a.href = <<"/">>)
    IN  SelectSeq(anchorsOf(page, {"pre"}), Kept)

typeF1Dom(a) ==
    IF a.alt # "none" THEN (IF a.alt = "[DIR]" THEN "directory" ELSE "file")
    ELSE IF endsWithSlash(a.href) THEN "directory" ELSE "file"

\* the name before the truncation is looked at
cleanNameF1Dom(a) ==
    LET linkText == trim(a.text)
    IN  IF typeF1Dom(a) = "directory" /\ endsWithSlash(linkText)
        THEN SubSeq(linkText, 1, Len(linkText) - 1)
        ELSE linkText

truncated(name) == Len(name) > 0 /\ name[Len(name)] = "..>"

\* decodeURIComponent(href) raises for some line
throwsF1Dom(page) ==
    LET lines == linesF1Dom(page)
    IN  \E i \in DOMAIN lines :
            /\ truncated(cleanNameF1Dom(lines[i]))
            /\ \E k \in DOMAIN lines[i].href : lines[i].href[k] = BadEscape

parseF1Dom(page) ==
    LET lines == linesF1Dom(page)
        NameOf(a) ==
            LET name == cleanNameF1Dom(a)
                decodedHref == decodeURIComponent(a.href)
            IN  IF truncated(name) /\ decodedHref # a.href
                THEN (IF lastSegment(decodedHref) # <<>> THEN lastSegment(decodedHref) ELSE name)
                ELSE name
        TimeOf(a) == IF a.date.kind = "iso" THEN <<a.date.minute>> ELSE NoTime
        EntryOf(a) ==
            IF typeF1Dom(a) = "directory"
            THEN [type |-> "directory", name |-> NameOf(a), path |-> a.href,
                  lastModified |-> TimeOf(a), children |-> <<>>]
            ELSE [type |-> "file", name |-> NameOf(a), path |-> a.href,
                  lastModified |-> TimeOf(a)]
    IN  [i \in 1..Len(lines) |-> EntryOf(lines[i])]

parseF2Dom(page, z) ==
    LET tables == {b \in DOMAIN page : page[b].tag = "table"}
        rows == IF tables = {} THEN <<>> ELSE page[Min(tables)].links
        Kept(a) == ~(\/ a.hr
                     \/ a.alt = "none"
                     \/ a.alt = "[PARENTDIR]"
                     \/ a.href = <<>>
                     \/ trim(a.text) = ParentDirectory)
        TimeOf(a) == IF a.date.kind \in {"none", "nbsp"} THEN NoTime ELSE localTime(a.date, z)
        EntryOf(a) ==
            IF a.alt = "[DIR]" \/ endsWithSlash(a.href)
            THEN [type |-> "directory", name |-> trim(a.text), path |-> a.href,
                  lastModified |-> TimeOf(a), children |-> <<>>]
            ELSE [type |-> "file", name |-> trim(a.text), path |-> a.href,
                  lastModified |-> TimeOf(a)]
        kept == SelectSeq(rows, Kept)
    IN  [i \in 1..Len(kept) |-> EntryOf(kept[i])]

\* what a call of parse comes to: it returns a value or it throws
Returned(value) == [state |-> "returned", value |-> value]

Thrown == [state |-> "threw", value |-> <<>>]

NotCalled == [state |-> "idle", value |-> <<>>]

parseDom(page, format, z) ==
    LET f == IF format = "none" THEN inferFormatDom(page) ELSE format
        children == IF f = "F0" THEN parseF0Dom(page)
                    ELSE IF f = "F1" THEN parseF1Dom(page)
                    ELSE IF f = "F2" THEN parseF2Dom(page, z)
                    ELSE <<>>
    IN  IF f = "F1" /\ throwsF1Dom(page) THEN Thrown
        ELSE Returned([type |-> "directory", path |-> <<"/">>, children |-> children])

-----------------------------------------------------------------------------
(* generateAutoIndexHtml (test-utils) *)

Row(href, text, alt, date, hr) ==
    [href |-> href, text |-> text, alt |-> alt, date |-> date, hr |-> hr]

NoDate == [kind |-> "none", minute |-> 0]

Nbsp == [kind |-> "nbsp", minute |-> 0]

\* new Date(lastModified).toISOString().slice(0, 16).replace("T", " ")
isoDate(lastModified) == [kind |-> "iso", minute |-> lastModified[1]]

\* entry.type === "directory" ? `${entry.name}/` : entry.name
shownName(entry) == IF entry.type = "directory" THEN entry.name \o <<"/">> ELSE entry.name

generateF0Content(es, includeParent) ==
    [tag |-> "ul",
     links |-> (IF includeParent
                THEN <<Row(<<"/">>, <<" ", "Parent Directory">>, "none", NoDate, FALSE)>>
                ELSE <<>>)
               \o [i \in 1..Len(es) |->
                     Row(es[i].path, <<" ">> \o shownName(es[i]), "none", NoDate, FALSE)]]

\* the header line ends with <hr> and has no line break after it: the row
\* that follows shares its line
generateF1Content(es, includeParent) ==
    LET header == Row(<<"?", "C=N", ";", "O=D", ";", "F=", "1">>, <<"Name">>, "none", NoDate, TRUE)
        parent == Row(<<"/">>, <<"Parent Directory">>, "[PARENTDIR]", NoDate, FALSE)
        line(e) == Row(e.path, shownName(e) \o <<" ">>,
                       IF e.type = "directory" THEN "[DIR]" ELSE "[TXT]",
                       IF e.lastModified # NoTime THEN isoDate(e.lastModified) ELSE NoDate,
                       FALSE)
        lines == (IF includeParent THEN <<parent>> ELSE <<>>)
                    \o [i \in 1..Len(es) |-> line(es[i])]
    IN  [tag |-> "pre",
         links |-> <<header>> \o [i \in 1..Len(lines) |->
                                    IF i = 1 THEN [lines[i] EXCEPT !.hr = TRUE] ELSE lines[i]]]

generateF2Content(es, includeParent) ==
    LET header == Row(<<"?", "C=N", ";", "O=D">>, <<"Name">>, "none", NoDate, TRUE)
        parent == Row(<<"/">>, <<"Parent Directory">>, "[PARENTDIR]", Nbsp, FALSE)
        row(e) == Row(e.path, shownName(e),
                      IF e.type = "directory" THEN "[DIR]" ELSE "[TXT]",
                      IF e.lastModified # NoTime THEN isoDate(e.lastModified) ELSE Nbsp,
                      FALSE)
    IN  [tag |-> "table",
         links |-> <<header>> \o (IF includeParent THEN <<parent>> ELSE <<>>)
                      \o [i \in 1..Len(es) |-> row(es[i])]]

generateAutoIndexHtml(es, format, includeParent) ==
    IF format = "F0" THEN <<generateF0Content(es, includeParent)>>
    ELSE IF format = "F1" THEN <<generateF1Content(es, includeParent)>>
    ELSE IF format = "F2" THEN <<generateF2Content(es, includeParent)>>
    ELSE <<>>

-----------------------------------------------------------------------------
(* parse with a basePath *)

\* a buggy addLeadingSlash that prepends without looking
addLeadingSlashAlways(path) == <<"/">> \o path

addLeadingSlash(path) == IF startsWithSlash(path) THEN path ELSE <<"/">> \o path

\* the base path with one leading separator and no trailing one
normalizeBasePath(basePath) == trimTrailingSlash(addLeadingSlash(basePath))

\* normalize(basePath) + "/" + relativePath
joinBasePath(basePath, path) ==
    normalizeBasePath(basePath) \o <<"/">> \o trimLeadingSlash(path)

\* parse(html, { format, basePath }); basePath "" stands for none given
parseWithBasePath(page, format, basePath, z) ==
    LET es == parse(page, format, z)
    IN  IF basePath = <<>> THEN es
        ELSE [i \in 1..Len(es) |-> [es[i] EXCEPT !.path = joinBasePath(basePath, @)]]

-----------------------------------------------------------------------------
(* traverse *)

RootId == <<>>

NoEntry == [type |-> "none"]

Format == "F0"

fullPath(pathPrefix, entry) ==
    trimTrailingSlash(trimLeadingSlash(
        IF pathPrefix # <<>> THEN pathPrefix \o <<"/">> \o entry.path ELSE entry.path))

\* a buggy join that always inserts a separator
childUrlAlwaysSlash(url, entry) == url \o <<"/">> \o entry.path

childUrl(url, entry) ==
    IF endsWithSlash(url)
    THEN url \o (IF startsWithSlash(entry.path) THEN SubSeq(entry.path, 2, Len(entry.path)) ELSE entry.path)
    ELSE url \o (IF startsWithSlash(entry.path) THEN entry.path ELSE <<"/">> \o entry.path)

newFileEntry(pathPrefix, entry) ==
    [type |-> entry.type, name |-> entry.name, path |-> fullPath(pathPrefix, entry),
     lastModified |-> entry.lastModified]

\* a buggy dirEntry that leaves the placeholder children in place
dirEntryUnresolved(pathPrefix, entry, child) ==
    [type |-> entry.type, name |-> trimTrailingSlash(entry.name),
     path |-> fullPath(pathPrefix, entry), lastModified |-> entry.lastModified,
     children |-> <<>>]

dirEntry(pathPrefix, entry, child) ==
    [type |-> entry.type, name |-> trimTrailingSlash(entry.name),
     path |-> fullPath(pathPrefix, entry), lastModified |-> entry.lastModified,
     children |-> child]

\* the invocation as it stands at `await fetch(rootUrl, ...)`
NewCall(url, pathPrefix) ==
    [url |-> url, pathPrefix |-> pathPrefix, pc |-> "fetch", fetch |-> "pending",
     rootEntries |-> <<>>, br |-> <<>>, result |-> <<>>]

\* a buggy catch that lets the failure out
CaughtRethrown(call) == [call EXCEPT !.pc = "rejected"]

\* catch { return []; }
Caught(call) == [call EXCEPT !.pc = "done", !.result = <<>>]

\* a buggy collection: the values in the order the branches settle when no
\* callback is configured, files (at once) before directories (after a fetch)
allValuesAsSettled(call) ==
    LET values == [i \in 1..Len(call.br) |-> call.br[i].value]
    IN  SelectSeq(values, LAMBDA e : e.type = "file")
            \o SelectSeq(values, LAMBDA e : e.type # "file")

\* what Promise.all resolves with: the branches' values by row
allValues(call) == [i \in 1..Len(call.br) |-> call.br[i].value]

ChildId(c, i) == Append(c, i)

IsDir(entry) == entry.type # "file"

DirRows(entries) == {i \in 1..Len(entries) : IsDir(entries[i])}

\* the synchronous part of the map callback for row i, up to its first await
StartBranch(c, entry) ==
    IF entry.type = "file"
    THEN IF options.onFile
         THEN [pc |-> "onFile", value |-> newFileEntry(calls[c].pathPrefix, entry)]
         ELSE [pc |-> "fulfilled", value |-> newFileEntry(calls[c].pathPrefix, entry)]
    ELSE [pc |-> "child", value |-> NoEntry]

Invocation(cb, c, i, entry) == [cb |-> cb, call |-> c, row |-> i, entry |-> entry]

Parent(c) == SubSeq(c, 1, Len(c) - 1)

RECURSIVE Settle(_, _), Return(_, _)

\* a buggy await that never resumes
SettleNever(cs, c) == cs

\* `await Promise.all(...)` of call c resumes if it can: rejected (and caught)
\* as soon as one branch is, fulfilled once every branch is; call c then
\* returns to the branch that awaits it
Settle(cs, c) ==
    LET br == cs[c].br
    IN  IF cs[c].pc # "all" THEN cs
        ELSE IF \E i \in DOMAIN br : br[i].pc = "rejected"
             THEN Return([cs EXCEPT ![c] = Caught(@)], c)
        ELSE IF \A i \in DOMAIN br : br[i].pc = "fulfilled"
             THEN Return([cs EXCEPT ![c].pc = "done", ![c].result = allValues(cs[c])], c)
        ELSE cs

\* call c has settled: `await traverseInternal(childUrl, ...)` resumes in the
\* parent's branch, which builds the directory entry and invokes onDirectory
Return(cs, c) ==
    IF c = RootId THEN cs
    ELSE LET p == Parent(c)
             i == c[Len(c)]
             entry == dirEntry(cs[p].pathPrefix, cs[p].rootEntries[i], cs[c].result)
         IN  IF cs[c].pc = "rejected"
             THEN Settle([cs EXCEPT ![p].br[i].pc = "rejected"], p)
             ELSE IF options.onDirectory
             THEN [cs EXCEPT ![p].br[i] = [pc |-> "onDirectory", value |-> entry]]
             ELSE Settle([cs EXCEPT ![p].br[i] = [pc |-> "fulfilled", value |-> entry]], p)

\* the onDirectory invocations made on the way from old to new
DirInvocations(old, new) ==
    {Invocation("onDirectory", x[1], x[2], new[x[1]].br[x[2]].value) :
        x \in {y \in (DOMAIN old) \X (1..MaxRows) :
                  /\ y[2] \in DOMAIN old[y[1]].br
                  /\ old[y[1]].br[y[2]].pc = "child"
                  /\ new[y[1]].br[y[2]].pc = "onDirectory"}}

RECURSIVE SumLen(_)
SumLen(ids) ==
    IF ids = {} THEN 0
    ELSE LET c == CHOOSE x \in ids : TRUE
         IN  Len(calls[c].rootEntries) + SumLen(ids \ {c})

\* the entries every listing fetched so far has yielded
EntriesSoFar == SumLen(DOMAIN calls)

BagOfSeq(s) ==
    LET range == {s[i] : i \in DOMAIN s}
    IN  [x \in range |-> Cardinality({i \in DOMAIN s : s[i] = x})]

-----------------------------------------------------------------------------
(* The world: what the caller passes and what the server answers *)

RootUrls == {<<"http://h", "/", "t">>, <<"http://h", "/", "t", "/">>}

Anchors ==
    {[href |-> <<"f">>, text |-> <<"f">>],
     [href |-> <<"d", "/">>, text |-> <<"d", "/">>],
     [href |-> <<"/", "e", "/">>, text |-> <<" ", "e", "/">>],
     [href |-> <<"http://h", "/", "x", "/">>, text |-> <<"x", "/">>],
     [href |-> <<"/">>, text |-> <<" ", "Parent Directory">>]}

SeqsUpTo(S, n) == UNION {[1..k -> S] : k \in 0..n}

Pages == {<<>>} \cup {<<[tag |-> "ul", links |-> l]>> : l \in SeqsUpTo(Anchors, MaxRows)}

\* a server whose listings link their files by a path that starts with '/'
NestedAnchors ==
    {[href |-> <<"d", "/">>, text |-> <<"d", "/">>],
     [href |-> <<"/", "g">>, text |-> <<"g">>]}

NestedPages ==
    {<<>>} \cup {<<[tag |-> "ul", links |-> l]>> : l \in SeqsUpTo(NestedAnchors, MaxRows)}

\* a server whose listings show a directory with a doubled trailing separator
FrameAnchors ==
    {[href |-> <<"d", "/">>, text |-> <<"d", "/", "/">>],
     [href |-> <<"f">>, text |-> <<"f">>]}

FramePages ==
    {<<>>} \cup {<<[tag |-> "ul", links |-> l]>> : l \in SeqsUpTo(FrameAnchors, MaxRows)}

-----------------------------------------------------------------------------
(* Actions of the traversal.  Each is one event of the event loop together *)
(* with every continuation it resumes, up to the next pending await.       *)

\* parse(html, options?.format) of every page, tabulated
Parsed == [p \in Pages \cup NestedPages \cup FramePages |-> parse(p, Format, 0)]

\* one page for every list of entries a page can yield: the traversal sees of
\* a page nothing but its entries
Listed == [p \in Pages |-> CHOOSE q \in Pages : Parsed[q] = Parsed[p]]

\* the pages that yield at most n entries
Listings == [n \in 0..MaxRows |-> {p \in Pages : Len(Parsed[p]) <= n /\ Listed[p] = p}]

InferIdle == html = <<>> /\ inferred = Undefined /\ inferredDom = Undefined

NoArguments == [entries |-> <<>>, format |-> "none", includeParent |-> FALSE]

ParseIdle ==
    /\ formatArg = "none"
    /\ zone = 0
    /\ parsed = NotCalled
    /\ parsedDom = NotCalled
    /\ given = NoArguments
    /\ runs = <<>>

Init ==
    /\ rootUrl \in RootUrls
    /\ options \in [onFile : BOOLEAN, onDirectory : BOOLEAN]
    /\ calls = (RootId :> NewCall(rootUrl, <<>>))
    /\ fetched = SetToBag({rootUrl})
    /\ cbCalls = EmptyBag
    /\ InferIdle
    /\ ParseIdle

\* the effect of an event that changes no branch of its own
Resume(cs) ==
    /\ calls' = cs
    /\ cbCalls' = cbCalls (+) SetToBag(DirInvocations(calls, cs))
    /\ UNCHANGED <<rootUrl, options, fetched, inferVars, parseVars>>

\* fetch rejects (network failure, abort): caught
FetchThrows(c) ==
    /\ calls[c].pc = "fetch"
    /\ Resume(Return([calls EXCEPT ![c] = Caught([@ EXCEPT !.fetch = "failed"])], c))

\* fetch resolves with a response that is not ok: thrown and caught
FetchNotOk(c) ==
    /\ calls[c].pc = "fetch"
    /\ Resume(Return([calls EXCEPT ![c] = Caught([@ EXCEPT !.fetch = "failed"])], c))

\* fetch resolves with an ok response: on to `await res.text()`
FetchOk(c) ==
    /\ calls[c].pc = "fetch"
    /\ Resume([calls EXCEPT ![c].pc = "text", ![c].fetch = "ok"])

\* res.text() rejects: caught
TextRejects(c) ==
    /\ calls[c].pc = "text"
    /\ Resume(Return([calls EXCEPT ![c] = Caught([@ EXCEPT !.fetch = "failed"])], c))

\* res.text() resolves: parse, then the map callback runs for every row up to
\* its first await (onFile invoked, child traversal started and its fetch issued)
TextResolves(c, page) ==
    /\ calls[c].pc = "text"
    /\ LET entries == Parsed[page]
           dirs == DirRows(entries)
           files == (1..Len(entries)) \ dirs
           urls == [i \in 1..Len(entries) |-> childUrl(calls[c].url, entries[i])]
           dirUrls == SelectSeq([i \in 1..Len(entries) |->
                                    IF i \in dirs THEN urls[i] ELSE <<>>],
                                LAMBDA u : u # <<>>)
           started ==
               [id \in DOMAIN calls \cup {ChildId(c, i) : i \in dirs} |->
                  IF id = c
                  THEN [calls[c] EXCEPT
                          !.pc = "all", !.rootEntries = entries,
                          !.br = [i \in 1..Len(entries) |-> StartBranch(c, entries[i])]]
                  ELSE IF id \in DOMAIN calls THEN calls[id]
                  ELSE LET i == id[Len(id)]
                       IN  NewCall(urls[i], fullPath(calls[c].pathPrefix, entries[i]))]
           resumed == Settle(started, c)
       IN  /\ Cardinality(DOMAIN calls) + Cardinality(dirs) <= MaxCalls
           /\ EntriesSoFar + Len(entries) <= MaxEntries
           /\ calls' = resumed
           /\ fetched' = fetched (+) BagOfSeq(dirUrls)
           /\ cbCalls' = cbCalls
                  (+) (IF options.onFile
                       THEN SetToBag({Invocation("onFile", c, i,
                               newFileEntry(calls[c].pathPrefix, entries[i])) : i \in files})
                       ELSE EmptyBag)
                  (+) SetToBag(DirInvocations(started, resumed))
    /\ UNCHANGED <<rootUrl, options, inferVars, parseVars>>

\* the promise returned by onFile settles
OnFileSettles(c, i, ok) ==
    /\ i \in DOMAIN calls[c].br
    /\ calls[c].br[i].pc = "onFile"
    /\ Resume(Settle([calls EXCEPT ![c].br[i].pc = IF ok THEN "fulfilled" ELSE "rejected"], c))

\* the promise returned by onDirectory settles
OnDirectorySettles(c, i, ok) ==
    /\ i \in DOMAIN calls[c].br
    /\ calls[c].br[i].pc = "onDirectory"
    /\ Resume(Settle([calls EXCEPT ![c].br[i].pc = IF ok THEN "fulfilled" ELSE "rejected"], c))

Next ==
    \/ \E c \in DOMAIN calls : FetchThrows(c)
    \/ \E c \in DOMAIN calls : FetchNotOk(c)
    \/ \E c \in DOMAIN calls : FetchOk(c)
    \/ \E c \in DOMAIN calls : TextRejects(c)
    \/ \E c \in DOMAIN calls :
          /\ calls[c].pc = "text"
          /\ \E page \in Listings[Min({MaxRows, MaxEntries - EntriesSoFar})] :
                 TextResolves(c, page)
    \/ \E c \in DOMAIN calls, i \in 1..MaxRows, ok \in BOOLEAN : OnFileSettles(c, i, ok)
    \/ \E c \in DOMAIN calls, i \in 1..MaxRows, ok \in BOOLEAN : OnDirectorySettles(c, i, ok)

Spec == Init /\ [][Next]_vars

-----------------------------------------------------------------------------
(* Format inference on its own: the markup is the input *)

MaxBlocks == 2   \* <ul>, <pre> and <table> blocks per page
MaxLinks == 1    \* anchors per block

Hrefs ==
    {<<"?", "C=N", ";", "O=D", ";", "F=", "2">>,
     <<"?", "C=N", ";", "O=D", ";", "F=", "1">>,
     <<"?", "F=", "1">>,
     <<"?", "C=N", ";", "O=D", ";", "F=", "3">>,
     <<"?", "C=N", ";", "O=D">>,
     <<"f">>}

Blocks ==
    {[tag |-> t, links |-> l] :
        t \in {"ul", "pre", "table"},
        l \in SeqsUpTo({[href |-> h, text |-> <<"Name">>] : h \in Hrefs}, MaxLinks)}

InitInfer ==
    /\ html \in SeqsUpTo(Blocks, MaxBlocks)
    /\ inferred = Undefined
    /\ inferredDom = Undefined
    /\ rootUrl = <<>>
    /\ options = [onFile |-> FALSE, onDirectory |-> FALSE]
    /\ calls = <<>>
    /\ fetched = EmptyBag
    /\ cbCalls = EmptyBag
    /\ ParseIdle

InferFormat ==
    /\ inferred = Undefined
    /\ inferred' = inferFormat(html)
    /\ UNCHANGED <<html, inferredDom, traverseVars, parseVars>>

InferFormatDom ==
    /\ inferredDom = Undefined
    /\ inferredDom' = inferFormatDom(html)
    /\ UNCHANGED <<html, inferred, traverseVars, parseVars>>

NextInfer == InferFormat \/ InferFormatDom

SpecInfer == InitInfer /\ [][NextInfer]_vars

-----------------------------------------------------------------------------
(* parse on its own: the markup, the format and the time zone are the input *)

MaxLines == 2    \* rows per listing given to parse

Stamp == [kind |-> "iso", minute |-> 600]

ParseRows ==
    {Row(<<"f">>, <<"f">>, "[TXT]", Stamp, FALSE),
     Row(<<"f">>, <<"f">>, "[TXT]", Stamp, TRUE),
     Row(<<"d", "/">>, <<" ", "d", "/">>, "[DIR]", Nbsp, FALSE),
     Row(<<"d", "/">>, <<"d">>, "none", [kind |-> "bad", minute |-> 0], FALSE),
     Row(<<"/">>, <<" ", "Parent Directory">>, "[PARENTDIR]", Nbsp, FALSE),
     Row(<<"..", "/">>, <<"Parent Directory">>, "[DIR]", NoDate, FALSE),
     Row(<<"?", "C=N", ";", "O=D", ";", "F=", "2">>, <<"Name">>, "none", NoDate, TRUE),
     Row(<<"/", "e", "/">>, <<"e", "/">>, "[DIR]", NoDate, FALSE),
     Row(<<BadEscape>>, <<"g", "..>">>, "[TXT]", Stamp, FALSE),
     Row(<<"h", "/">>, <<"h">>, "[IMG]", Stamp, FALSE),
     Row(<<"/">>, <<"up">>, "[DIR]", Nbsp, FALSE),
     Row(<<"l", "o">>, <<"l", "..>">>, "[TXT]", Stamp, FALSE)}

ParsePages ==
    {<<>>} \cup {<<[tag |-> t, links |-> l]>> :
                    t \in {"ul", "pre", "table"}, l \in SeqsUpTo(ParseRows, MaxLines)}

Formats == {"none", "F0", "F1", "F2"}

Zones == {0, 60}

TraverseIdle ==
    /\ rootUrl = <<>>
    /\ options = [onFile |-> FALSE, onDirectory |-> FALSE]
    /\ calls = <<>>
    /\ fetched = EmptyBag
    /\ cbCalls = EmptyBag

InitParse ==
    /\ html \in ParsePages
    /\ formatArg \in Formats
    /\ zone \in Zones
    /\ parsed = NotCalled
    /\ parsedDom = NotCalled
    /\ given = NoArguments
    /\ runs = <<>>
    /\ inferred = Undefined
    /\ inferredDom = Undefined
    /\ TraverseIdle

\* parse(html, format), string markup
Parse ==
    /\ parsed = NotCalled
    /\ parsed' = Returned(parse(html, formatArg, zone))
    /\ UNCHANGED <<html, formatArg, zone, parsedDom, given, runs, inferred, inferredDom, traverseVars>>

\* parse(html, format), parsed document
ParseDom ==
    /\ parsedDom = NotCalled
    /\ parsedDom' = parseDom(html, formatArg, zone)
    /\ UNCHANGED <<html, formatArg, zone, parsed, given, runs, inferred, inferredDom, traverseVars>>

NextParse == Parse \/ ParseDom

SpecParse == InitParse /\ [][NextParse]_vars

-----------------------------------------------------------------------------
(* Round trip: a listing is generated from entries, then parsed *)

MaxGiven == 2    \* entries given to generateAutoIndexHtml

GivenEntries ==
    {[type |-> "file", name |-> <<"f">>, path |-> <<"f">>, lastModified |-> <<600>>],
     [type |-> "file", name |-> <<"g">>, path |-> <<"g">>, lastModified |-> NoTime],
     [type |-> "directory", name |-> <<"d">>, path |-> <<"d", "/">>, lastModified |-> <<600>>],
     [type |-> "directory", name |-> <<"e">>, path |-> <<"e">>, lastModified |-> NoTime]}

InitRoundTrip ==
    /\ given \in [entries : SeqsUpTo(GivenEntries, MaxGiven),
                  format : {"F0", "F1", "F2"},
                  includeParent : BOOLEAN]
    /\ formatArg \in {"none", given.format}
    /\ zone \in Zones
    /\ html = <<>>
    /\ runs = <<>>
    /\ parsed = NotCalled
    /\ parsedDom = NotCalled
    /\ inferred = Undefined
    /\ inferredDom = Undefined
    /\ TraverseIdle

Generate ==
    /\ html = <<>>
    /\ html' = generateAutoIndexHtml(given.entries, given.format, given.includeParent)
    /\ UNCHANGED <<formatArg, zone, parsed, parsedDom, given, runs, inferred, inferredDom, traverseVars>>

NextRoundTrip ==
    \/ Generate
    \/ html # <<>> /\ Parse
    \/ html # <<>> /\ ParseDom

SpecRoundTrip == InitRoundTrip /\ [][NextRoundTrip]_vars

-----------------------------------------------------------------------------
(* parse with a basePath: one listing parsed under several base paths *)

BasePaths ==
    {<<>>,
     <<"cdn", "/", "unicode">>,
     <<"/", "cdn", "/", "unicode">>,
     <<"/", "cdn", "/", "unicode", "/">>}

InitBasePath ==
    /\ html \in ParsePages
    /\ formatArg \in {"F0", "F1", "F2"}
    /\ zone = 0
    /\ runs = <<>>
    /\ parsed = NotCalled
    /\ parsedDom = NotCalled
    /\ given = NoArguments
    /\ inferred = Undefined
    /\ inferredDom = Undefined
    /\ TraverseIdle

ParseWithBasePath(basePath) ==
    /\ basePath \notin DOMAIN runs
    /\ runs' = [b \in DOMAIN runs \cup {basePath} |->
                  IF b = basePath THEN parseWithBasePath(html, formatArg, basePath, zone)
                  ELSE runs[b]]
    /\ UNCHANGED <<html, formatArg, zone, parsed, parsedDom, given, inferred, inferredDom,
                   traverseVars>>

NextBasePath == \E basePath \in BasePaths : ParseWithBasePath(basePath)

SpecBasePath == InitBasePath /\ [][NextBasePath]_vars

-----------------------------------------------------------------------------
(* traverse called with a basePath among its options *)

InitWithBasePath ==
    /\ rootUrl = <<"http://h", "/", "t", "/">>
    /\ options \in [onFile : BOOLEAN, onDirectory : BOOLEAN,
                    basePath : {<<"/", "cdn", "/", "files">>}]
    /\ calls = (RootId :> NewCall(rootUrl, <<>>))
    /\ fetched = SetToBag({rootUrl})
    /\ cbCalls = EmptyBag
    /\ InferIdle
    /\ ParseIdle

SpecWithBasePath == InitWithBasePath /\ [][Next]_vars

-----------------------------------------------------------------------------
(* traverse of a server whose listings hold hrefs that start with '/' *)

NestedListings == [n \in 0..MaxRows |-> {p \in NestedPages : Len(Parsed[p]) <= n}]

NextNested ==
    \/ \E c \in DOMAIN calls : FetchThrows(c)
    \/ \E c \in DOMAIN calls : FetchNotOk(c)
    \/ \E c \in DOMAIN calls : FetchOk(c)
    \/ \E c \in DOMAIN calls : TextRejects(c)
    \/ \E c \in DOMAIN calls :
          /\ calls[c].pc = "text"
          /\ \E page \in NestedListings[Min({MaxRows, MaxEntries - EntriesSoFar})] :
                 TextResolves(c, page)
    \/ \E c \in DOMAIN calls, i \in 1..MaxRows, ok \in BOOLEAN : OnFileSettles(c, i, ok)
    \/ \E c \in DOMAIN calls, i \in 1..MaxRows, ok \in BOOLEAN : OnDirectorySettles(c, i, ok)

SpecNested == Init /\ [][NextNested]_vars

-----------------------------------------------------------------------------
(* traverse called with an abort signal among its options *)

InitAbort ==
    /\ rootUrl \in RootUrls
    /\ options \in [onFile : BOOLEAN, onDirectory : BOOLEAN, abortSignal : {"armed"}]
    /\ calls = (RootId :> NewCall(rootUrl, <<>>))
    /\ fetched = SetToBag({rootUrl})
    /\ cbCalls = EmptyBag
    /\ InferIdle
    /\ ParseIdle

\* a buggy recursion that hands the signal to the first fetch only
fetchSignalRootOnly(c) == IF c = RootId THEN options.abortSignal ELSE "none"

\* the signal the fetch of call c was given: options?.abortSignal, the options
\* being handed down unchanged to every child traversal
fetchSignal(c) == options.abortSignal

Aborted == "abortSignal" \in DOMAIN options /\ options.abortSignal = "aborted"

\* the fetch of call c, and the reading of its body, can still succeed
Live(c) == fetchSignal(c) # "aborted"

\* the caller triggers the signal
Abort ==
    /\ options.abortSignal = "armed"
    /\ options' = [options EXCEPT !.abortSignal = "aborted"]
    /\ UNCHANGED <<rootUrl, calls, fetched, cbCalls, inferVars, parseVars>>

NextAbort ==
    \/ Abort
    \/ \E c \in DOMAIN calls : FetchThrows(c)
    \/ \E c \in DOMAIN calls : FetchNotOk(c) /\ Live(c)
    \/ \E c \in DOMAIN calls : FetchOk(c) /\ Live(c)
    \/ \E c \in DOMAIN calls : TextRejects(c)
    \/ \E c \in DOMAIN calls :
          /\ calls[c].pc = "text"
          /\ Live(c)
          /\ \E page \in NestedListings[Min({MaxRows, MaxEntries - EntriesSoFar})] :
                 TextResolves(c, page)
    \/ \E c \in DOMAIN calls, i \in 1..MaxRows, ok \in BOOLEAN : OnFileSettles(c, i, ok)
    \/ \E c \in DOMAIN calls, i \in 1..MaxRows, ok \in BOOLEAN : OnDirectorySettles(c, i, ok)

SpecAbort == InitAbort /\ [][NextAbort]_vars

-----------------------------------------------------------------------------
(* traverse of a server whose listings show names with a doubled separator *)

FrameListings == [n \in 0..MaxRows |-> {p \in FramePages : Len(Parsed[p]) <= n}]

NextFrame ==
    \/ \E c \in DOMAIN calls : FetchThrows(c)
    \/ \E c \in DOMAIN calls : FetchNotOk(c)
    \/ \E c \in DOMAIN calls : FetchOk(c)
    \/ \E c \in DOMAIN calls : TextRejects(c)
    \/ \E c \in DOMAIN calls :
          /\ calls[c].pc = "text"
          /\ \E page \in FrameListings[Min({MaxRows, MaxEntries - EntriesSoFar})] :
                 TextResolves(c, page)
    \/ \E c \in DOMAIN calls, i \in 1..MaxRows, ok \in BOOLEAN : OnFileSettles(c, i, ok)
    \/ \E c \in DOMAIN calls, i \in 1..MaxRows, ok \in BOOLEAN : OnDirectorySettles(c, i, ok)

SpecFrame == Init /\ [][NextFrame]_vars

\* traverse('http://h/t', { onFile, onDirectory })
InitFair ==
    /\ rootUrl = <<"http://h", "/", "t">>
    /\ options = [onFile |-> TRUE, onDirectory |-> TRUE]
    /\ calls = (RootId :> NewCall(rootUrl, <<>>))
    /\ fetched = SetToBag({rootUrl})
    /\ cbCalls = EmptyBag
    /\ InferIdle
    /\ ParseIdle

\* every pending fetch, body read and callback completes in the end
SpecFrameFair == InitFair /\ [][NextFrame]_vars /\ WF_vars(NextFrame)

-----------------------------------------------------------------------------
(* traverse of a server that answers every URL with one and the same listing, *)
(* which holds a directory row; every fetch succeeds                          *)

InitCycle ==
    /\ rootUrl \in RootUrls
    /\ options \in [onFile : BOOLEAN, onDirectory : {FALSE}]
    /\ calls = (RootId :> NewCall(rootUrl, <<>>))
    /\ fetched = SetToBag({rootUrl})
    /\ cbCalls = EmptyBag
    /\ InferIdle
    /\ ParseIdle

\* the listing served to call c: one with a directory row for the root, the
\* root's listing again for everybody else
SameListing(c, page) ==
    IF c = RootId THEN DirRows(Parsed[page]) # {}
    ELSE Parsed[page] = calls[RootId].rootEntries

NextCycle ==
    \/ \E c \in DOMAIN calls : FetchOk(c)
    \/ \E c \in DOMAIN calls :
          /\ calls[c].pc = "text"
          /\ \E page \in Listings[Min({MaxRows, MaxEntries - EntriesSoFar})] :
                 SameListing(c, page) /\ TextResolves(c, page)
    \/ \E c \in DOMAIN calls, i \in 1..MaxRows, ok \in BOOLEAN : OnFileSettles(c, i, ok)

SpecCycle == InitCycle /\ [][NextCycle]_vars

-----------------------------------------------------------------------------
(* What the claims speak of *)

Resolved == calls[RootId].pc = "done"

\* call c got its listing and mapped its rows
Mapped(c) == calls[c].fetch = "ok" /\ calls[c].pc \in {"all", "done"}

FetchInFlight(c) == calls[c].pc \in {"fetch", "text"}

\* a branch of c still has a step to take: a callback to wait for, or a child
\* to wait for and an onDirectory to invoke
BranchPending(c) ==
    \E i \in DOMAIN calls[c].br : calls[c].br[i].pc \in {"onFile", "child", "onDirectory"}

IsPrefix(p, c) == Len(p) <= Len(c) /\ SubSeq(c, 1, Len(p)) = p

Subtree(c) == {d \in DOMAIN calls : IsPrefix(c, d)}

Quiet(c) == ~FetchInFlight(c) /\ ~BranchPending(c)

\* C1: when the fetch of a subdirectory fails, no call rejects, the level
\* that lists the subdirectory returns every one of its rows, and the row of
\* the failing directory carries children = [].
C1_FetchFailureKeepsSiblings ==
    \A c \in DOMAIN calls :
        /\ calls[c].pc # "rejected"
        /\ \A i \in DOMAIN calls[c].rootEntries :
              (/\ calls[c].pc = "done"
               /\ i \in DirRows(calls[c].rootEntries)
               /\ calls[ChildId(c, i)].fetch = "failed")
              => /\ Len(calls[c].result) = Len(calls[c].rootEntries)
                 /\ calls[c].result[i].type = "directory"
                 /\ calls[c].result[i].children = <<>>
                 /\ \A j \in DOMAIN calls[c].rootEntries :
                       calls[c].result[j].type = calls[c].rootEntries[j].type

\* C2: no traverseInternal call ever rejects, and a call whose fetch threw,
\* answered with a non-success response or lost its body has resolved to [].
C2_FailedFetchResolvesEmpty ==
    \A c \in DOMAIN calls :
        /\ calls[c].pc # "rejected"
        /\ calls[c].fetch = "failed" => (calls[c].pc = "done" /\ calls[c].result = <<>>)

C2_Witness ==
    calls[RootId].fetch = "failed" /\ Resolved /\ calls[RootId].result = <<>>

\* C3: in the list a call returns, every directory entry has a children
\* field equal to what the traversal of its child URL returned, and no file
\* entry has one.
C3_ChildrenAreChildTraversal ==
    \A c \in DOMAIN calls :
        calls[c].pc = "done" =>
            \A i \in DOMAIN calls[c].result :
                LET e == calls[c].result[i]
                IN  IF e.type = "directory"
                    THEN /\ "children" \in DOMAIN e
                         /\ ChildId(c, i) \in DOMAIN calls
                         /\ calls[ChildId(c, i)].pc = "done"
                         /\ calls[ChildId(c, i)].url = childUrl(calls[c].url, calls[c].rootEntries[i])
                         /\ e.children = calls[ChildId(c, i)].result
                    ELSE /\ e.type = "file"
                         /\ "children" \notin DOMAIN e

\* one file and one subdirectory at the root, two entries in the subdirectory
C3_Witness ==
    /\ Resolved
    /\ Len(calls[RootId].result) = 2
    /\ \E i, j \in 1..2 :
          /\ calls[RootId].result[i].type = "file"
          /\ calls[RootId].result[j].type = "directory"
          /\ Len(calls[RootId].result[j].children) = 2

\* C4: with onFile configured, onFile has been invoked exactly once for every
\* file row of every mapped listing and for nothing else, and once traverse
\* has resolved no onFile invocation is still running.
C4_OnFileOncePerFileAndAwaited ==
    options.onFile =>
        /\ \A c \in DOMAIN calls : Mapped(c) =>
              \A i \in DOMAIN calls[c].rootEntries :
                  CopiesIn(Invocation("onFile", c, i,
                               newFileEntry(calls[c].pathPrefix, calls[c].rootEntries[i])), cbCalls)
                    = IF calls[c].rootEntries[i].type = "file" THEN 1 ELSE 0
        /\ \A inv \in BagToSet(cbCalls) : inv.cb = "onFile" => inv.entry.type = "file"
        /\ Resolved => \A c \in DOMAIN calls : \A i \in DOMAIN calls[c].br :
                           calls[c].br[i].pc # "onFile"

\* C5: every onDirectory invocation was made when no fetch and no callback
\* was pending in the subtree of the directory's child call, with the entry
\* whose children are the child call's result, and that entry is the one
\* found in the list the level returns.
C5_OnDirectoryAfterSubtree ==
    \A inv \in BagToSet(cbCalls) : inv.cb = "onDirectory" =>
        LET c == inv.call
            i == inv.row
        IN  /\ calls[ChildId(c, i)].pc = "done"
            /\ inv.entry.children = calls[ChildId(c, i)].result
            /\ \A d \in Subtree(ChildId(c, i)) : Quiet(d)
            /\ calls[c].pc = "done" =>
                  (Len(calls[c].result) = Len(calls[c].rootEntries) /\ calls[c].result[i] = inv.entry)

\* C6: once traverse has resolved, no fetch is in flight and no branch of any
\* level has a callback running or a step left to take.
C6_ResolvedMeansQuiet ==
    Resolved => \A c \in DOMAIN calls : Quiet(c)

\* C7: a list returned by a level is empty or has one entry per row of the
\* level's listing, the i-th entry built from the i-th row.
C7_ResultInRowOrder ==
    \A c \in DOMAIN calls :
        (calls[c].pc = "done" /\ calls[c].result # <<>>) =>
            /\ Len(calls[c].result) = Len(calls[c].rootEntries)
            /\ \A i \in DOMAIN calls[c].result :
                  /\ calls[c].result[i].type = calls[c].rootEntries[i].type
                  /\ calls[c].result[i].name = trimTrailingSlash(calls[c].rootEntries[i].name)
                  /\ calls[c].result[i].path = fullPath(calls[c].pathPrefix, calls[c].rootEntries[i])

\* a level whose second row, a file with no onFile to wait for, settled
\* before its first, a directory that had to be fetched
C7_Witness ==
    \E c \in DOMAIN calls :
        /\ ~options.onFile
        /\ calls[c].pc = "done"
        /\ Len(calls[c].result) = 2
        /\ calls[c].result[1].type = "directory"
        /\ calls[c].result[2].type = "file"

StripTrailing(s) == IF Len(s) > 0 /\ s[Len(s)] = "/" THEN SubSeq(s, 1, Len(s) - 1) ELSE s

StripLeading(s) == IF Len(s) > 0 /\ s[1] = "/" THEN Tail(s) ELSE s

\* C8: the URL of every child call is the parent's URL without a trailing
\* "/", one "/", and the row's path without a leading "/"; and the URLs
\* handed to fetch are exactly the calls' URLs.
C8_ChildUrlJoinedByOneSlash ==
    /\ \A c \in DOMAIN calls : c # RootId =>
          calls[c].url = StripTrailing(calls[Parent(c)].url) \o <<"/">>
                            \o StripLeading(calls[Parent(c)].rootEntries[c[Len(c)]].path)
    /\ \A c \in DOMAIN calls :
          CopiesIn(calls[c].url, fetched) = Cardinality({d \in DOMAIN calls : calls[d].url = calls[c].url})
    /\ \A u \in BagToSet(fetched) : \E c \in DOMAIN calls : calls[c].url = u

\* the current URL ends with "/" and the row's path starts with "/"
C8_Witness ==
    \E c \in DOMAIN calls :
        /\ c # RootId
        /\ endsWithSlash(calls[Parent(c)].url)
        /\ startsWithSlash(calls[Parent(c)].rootEntries[c[Len(c)]].path)
        /\ CopiesIn(calls[c].url, fetched) = 1

IsAbsolute(path) == Len(path) > 0 /\ path[1] = "http://h"

\* C9: the child call of a row whose path is an absolute URL fetches that
\* URL itself (with or without its trailing "/").
C9_AbsoluteHrefFetchedAsIs ==
    \A c \in DOMAIN calls : c # RootId =>
        LET path == calls[Parent(c)].rootEntries[c[Len(c)]].path
        IN  IsAbsolute(path) => calls[c].url \in {path, path \o <<"/">>}

\* the digits named by the page's sort links: anchors whose href starts with
\* "?" and carries F=<digit>
SortLinkDigits(page) ==
    LET anchors == allAnchors(page)
        sortHrefs == {anchors[a].href : a \in {b \in DOMAIN anchors :
                         Len(anchors[b].href) > 0 /\ anchors[b].href[1] = "?"}}
        Named(href) == {href[k + 1] : k \in {j \in 1..(Len(href) - 1) :
                           href[j] = "F=" /\ href[j + 1] \in Digits}}
    IN  UNION {Named(href) : href \in sortHrefs}

\* C10: whenever the markup holds a sort link that names a format, inferFormat
\* returns a format that a sort link names, whatever blocks the markup has.
C10_SortLinkDecidesFormat ==
    SortLinkDigits(html) # {} =>
        /\ inferred # Undefined => inferred \in {FormatTag(d) : d \in SortLinkDigits(html)}
        /\ inferredDom # Undefined => inferredDom \in {FormatTag(d) : d \in SortLinkDigits(html)}

\* the layout the blocks of the page stand for
StructuralFormat(page) ==
    IF hasTag(page, "pre") THEN "F1"
    ELSE IF hasTag(page, "table") THEN "F2"
    ELSE "F0"

\* C11: when no sort link of the markup names a format, inferFormat returns
\* F1 for markup with a <pre>, else F2 for markup with a <table>, else F0.
C11_StructuralFallback ==
    SortLinkDigits(html) = {} =>
        /\ inferred # Undefined => inferred = StructuralFormat(html)
        /\ inferredDom # Undefined => inferredDom = StructuralFormat(html)

\* the rows of the markup, whatever block they are in
RowsOf(page) == anchorsOf(page, {"ul", "pre", "table"})

\* the parent-directory link: the row labelled "Parent Directory"
IsParentLink(a) == trim(a.text) = ParentDirectory

OnlyParentLinks(page) ==
    /\ RowsOf(page) # <<>>
    /\ \A i \in DOMAIN RowsOf(page) : IsParentLink(RowsOf(page)[i])

\* the entries a finished call of parse returned
ParsedEntries == IF parsed.state = "returned" THEN parsed.value ELSE <<>>

ParsedDomEntries == IF parsedDom.state = "returned" THEN parsedDom.value.children ELSE <<>>

ParentLinkAbsent(state, es) ==
    /\ \A i \in DOMAIN es : es[i].name # ParentDirectory
    /\ (OnlyParentLinks(html) /\ state # "idle") => (state = "returned" /\ es = <<>>)

\* C12: no entry returned by parse is the parent-directory link, and a
\* listing whose only rows are parent-directory links parses to the empty
\* list, with every format given or inferred.
C12_ParentLinkNeverReturned ==
    /\ ParentLinkAbsent(parsed.state, ParsedEntries)
    /\ ParentLinkAbsent(parsedDom.state, ParsedDomEntries)

\* a listing with the parent link (as the list layout writes it) and one
\* more row, parsed to one entry by both versions
C12_Witness ==
    /\ \E i \in DOMAIN RowsOf(html) :
          IsParentLink(RowsOf(html)[i]) /\ RowsOf(html)[i].text # ParentDirectory
    /\ formatArg = "F0"
    /\ Len(ParsedEntries) = 1
    /\ Len(ParsedDomEntries) = 1

UnicodeBasePaths ==
    {<<"cdn", "/", "unicode">>, <<"/", "cdn", "/", "unicode">>, <<"/", "cdn", "/", "unicode", "/">>}

PathsOf(es) == [i \in 1..Len(es) |-> es[i].path]

NormalBasePath(b) == <<"/">> \o StripTrailing(StripLeading(b))

NoDoubleSlash(path) == \A k \in 1..(Len(path) - 1) : ~(path[k] = "/" /\ path[k + 1] = "/")

StartsWith(s, prefix) == Len(s) >= Len(prefix) /\ SubSeq(s, 1, Len(prefix)) = prefix

\* C15: with a basePath among the options, every entry a level returns and
\* every entry handed to onFile and onDirectory has a path that starts with
\* the normalized basePath and '/'.
C15_TraversedPathsCarryBasePath ==
    "basePath" \in DOMAIN options =>
        LET prefix == NormalBasePath(options.basePath) \o <<"/">>
        IN  /\ \A c \in DOMAIN calls : calls[c].pc = "done" =>
                  \A i \in DOMAIN calls[c].result : StartsWith(calls[c].result[i].path, prefix)
            /\ \A inv \in BagToSet(cbCalls) : StartsWith(inv.entry.path, prefix)

PlainPath(path) == ~startsWithSlash(path) /\ ~endsWithSlash(path) /\ NoDoubleSlash(path)

\* C16: without a basePath every path a level returns or hands to a callback
\* has no leading, no trailing and no doubled separator, and below the root
\* it is the returned path of the directory, one '/', and the row's own path
\* without its leading '/'.
C16_PathsJoinedByOneSlash ==
    "basePath" \notin DOMAIN options =>
        /\ \A c \in DOMAIN calls : calls[c].pc = "done" =>
              \A i \in DOMAIN calls[c].result :
                  /\ PlainPath(calls[c].result[i].path)
                  /\ c # RootId =>
                        calls[c].result[i].path
                            = calls[c].pathPrefix \o <<"/">> \o StripLeading(calls[c].rootEntries[i].path)
        /\ \A inv \in BagToSet(cbCalls) : PlainPath(inv.entry.path)

\* the text a row displays, without the surrounding blanks and without one
\* trailing separator
DisplayedName(row) == trimTrailingSlash(trim(row.text))

NamesAreDisplayed(es) ==
    \A i \in DOMAIN es :
        /\ ~endsWithSlash(es[i].name)
        /\ \E j \in DOMAIN RowsOf(html) :
              \/ es[i].name = DisplayedName(RowsOf(html)[j])
              \/ truncated(trim(RowsOf(html)[j].text))

\* C17: every entry parse returns has a name without a trailing '/', and the
\* name is the displayed text of a row of the markup with nothing but one
\* trailing separator removed.
C17_NameIsTextWithoutTrailingSlash ==
    /\ NamesAreDisplayed(ParsedEntries)
    /\ NamesAreDisplayed(ParsedDomEntries)

NeverThrows(state, es) ==
    /\ state # "threw"
    /\ (state = "returned" /\ RowsOf(html) = <<>>) => es = <<>>

\* C18: parse raises for no markup and no format, and markup without rows
\* (empty markup included) parses to the empty list.
C18_ParseNeverThrows ==
    /\ NeverThrows(parsed.state, ParsedEntries)
    /\ NeverThrows(parsedDom.state, ParsedDomEntries)

\* what the round trip compares: name, kind and, where the format shows it,
\* the timestamp
Shown(es, format) ==
    [i \in 1..Len(es) |->
        [name |-> es[i].name, type |-> es[i].type,
         lastModified |-> IF format = "F0" THEN NoTime ELSE es[i].lastModified]]

RoundTrips(state, es) ==
    state = "returned" =>
        BagOfSeq(Shown(es, given.format)) = BagOfSeq(Shown(given.entries, given.format))

\* C19: parsing the listing generated for a list of entries returns that set
\* of entries: same names and kinds, and in F1 and F2 the same timestamps.
C19_GeneratedListingRoundTrips ==
    html # <<>> =>
        /\ RoundTrips(parsed.state, ParsedEntries)
        /\ RoundTrips(parsedDom.state, ParsedDomEntries)

\* the entries come from rows of the markup taken in document order, no row
\* used twice
InRowOrder(es) ==
    LET rows == RowsOf(html)
    IN  \E k \in [1..Len(es) -> 1..Len(rows)] :
            /\ \A i, j \in 1..Len(es) : i < j => k[i] < k[j]
            /\ \A i \in 1..Len(es) :
                  es[i].path \in {rows[k[i]].href, trimTrailingSlash(rows[k[i]].href)}

\* C20: the entries parse returns are in the order of their rows in the
\* markup, none of them twice, with the format given or inferred.
C20_EntriesInMarkupOrder ==
    /\ InRowOrder(ParsedEntries)
    /\ InRowOrder(ParsedDomEntries)

\* two rows with different hrefs, both returned by both versions, the format
\* inferred
C20_Witness ==
    /\ Len(RowsOf(html)) = 2
    /\ RowsOf(html)[1].href # RowsOf(html)[2].href
    /\ formatArg = "none"
    /\ Len(ParsedEntries) = 2
    /\ Len(ParsedDomEntries) = 2

\* the icon markers the table layout knows
KnownIcons == {"[DIR]", "[TXT]", "[PARENTDIR]"}

\* the row has an icon and its marker is none of the known ones
UnknownIcon(row) == row.alt # "none" /\ row.alt \notin KnownIcons

ComesFrom(e, row) == e.path \in {row.href, trimTrailingSlash(row.href)}

NoEntryOfUnknownIcon(es) ==
    \A i \in DOMAIN es :
        \A j \in DOMAIN RowsOf(html) :
            UnknownIcon(RowsOf(html)[j]) => ~ComesFrom(es[i], RowsOf(html)[j])

\* C21: parsed as a table, a row whose icon marker is none of [DIR], [TXT]
\* and [PARENTDIR] yields no entry.
C21_UnknownIconSkipped ==
    formatArg = "F2" =>
        /\ NoEntryOfUnknownIcon(ParsedEntries)
        /\ NoEntryOfUnknownIcon(ParsedDomEntries)

\* the row links to the parent: by its label or by the root path as href
LinksToParent(row) == trim(row.text) = ParentDirectory \/ row.href = <<"/">>

NoEntryOfParentRow(es) ==
    \A i \in DOMAIN es :
        \A j \in DOMAIN RowsOf(html) :
            LinksToParent(RowsOf(html)[j]) => ~ComesFrom(es[i], RowsOf(html)[j])

\* C22: parsed as a table, a row labelled "Parent Directory" or whose href is
\* exactly '/' yields no entry, whatever its icon.
C22_ParentRowsSkipped ==
    formatArg = "F2" =>
        /\ NoEntryOfParentRow(ParsedEntries)
        /\ NoEntryOfParentRow(ParsedDomEntries)

\* the kind a line of the preformatted layout stands for: by its icon marker
\* if it has one, by its href otherwise
KindByIconThenHref(row) ==
    IF row.alt # "none" THEN (IF row.alt = "[DIR]" THEN "directory" ELSE "file")
    ELSE IF endsWithSlash(row.href) THEN "directory" ELSE "file"

KindsFollowIcon(es) ==
    \A i \in DOMAIN es :
        \E j \in DOMAIN RowsOf(html) :
            /\ ComesFrom(es[i], RowsOf(html)[j])
            /\ es[i].type = KindByIconThenHref(RowsOf(html)[j])

\* C23: parsed as preformatted text, an entry is a directory exactly when its
\* line's icon marker is [DIR], or, on a line without icon, when its href
\* ends with '/'.
C23_KindByIconThenHref ==
    formatArg = "F1" =>
        /\ KindsFollowIcon(ParsedEntries)
        /\ KindsFollowIcon(ParsedDomEntries)

\* C24: parsed as preformatted text by the document version, an entry that
\* comes from a link whose text ends with '..>' is named by the last segment
\* of its decoded href, and no entry keeps a name that ends with '..>'.
C24_TruncatedNameRecovered ==
    (formatArg = "F1" /\ parsedDom.state = "returned") =>
        \A i \in DOMAIN ParsedDomEntries :
            /\ ~truncated(ParsedDomEntries[i].name)
            /\ \A j \in DOMAIN RowsOf(html) :
                  (/\ truncated(trim(RowsOf(html)[j].text))
                   /\ ParsedDomEntries[i].path = RowsOf(html)[j].href)
                      => ParsedDomEntries[i].name
                            = lastSegment(decodeURIComponent(RowsOf(html)[j].href))

\* C25: once the signal is triggered no fetch and no body read succeeds any
\* more: a call that was waiting for its response or its body, when it moves,
\* ends with the empty list, no new call gets a listing, and no call rejects.
C25_AbortFailsEveryFetch ==
    [][Aborted =>
          /\ \A c \in DOMAIN calls :
                (FetchInFlight(c) /\ calls'[c] # calls[c])
                    => /\ calls'[c].pc = "done"
                       /\ calls'[c].fetch = "failed"
                       /\ calls'[c].result = <<>>
          /\ \A c \in DOMAIN calls' : calls'[c].pc # "rejected"]_vars

\* the signal was triggered with the fetch of a subdirectory in flight;
\* traverse has resolved and the subdirectory has no children
C25_Witness ==
    /\ Aborted
    /\ Resolved
    /\ \E i \in DOMAIN calls[RootId].result :
          /\ calls[RootId].result[i].type = "directory"
          /\ calls[RootId].result[i].children = <<>>
          /\ calls[ChildId(RootId, i)].fetch = "failed"

\* the fields traverse adds to what parse returned for the row
AddedFields(e) == IF e.type = "directory" THEN {"children"} ELSE {}

\* C26: every returned entry has the type, name and lastModified parse gave
\* its row, the row's path prefixed and normalized once, and no other field
\* but the children of a directory.
C26_TraverseOnlyAugments ==
    \A c \in DOMAIN calls :
        calls[c].pc = "done" =>
            \A i \in DOMAIN calls[c].result :
                LET e == calls[c].result[i]
                    row == calls[c].rootEntries[i]
                IN  /\ e.type = row.type
                    /\ e.name = row.name
                    /\ e.lastModified = row.lastModified
                    /\ e.path = fullPath(calls[c].pathPrefix, row)
                    /\ DOMAIN e = DOMAIN row \cup AddedFields(e)

\* every call that exists was fetched, each the number of times it was called
\* for, and every directory row of a mapped listing has its child call
FetchedOncePerDirectory ==
    /\ \A c \in DOMAIN calls :
          /\ BagIn(calls[c].url, fetched)
          /\ CopiesIn(calls[c].url, fetched)
                = Cardinality({d \in DOMAIN calls : calls[d].url = calls[c].url})
          /\ \A i \in DirRows(calls[c].rootEntries) :
                /\ ChildId(c, i) \in DOMAIN calls
                /\ calls[ChildId(c, i)].url = childUrl(calls[c].url, calls[c].rootEntries[i])
    /\ BagCardinality(fetched) = Cardinality(DOMAIN calls)

AllDone == \A c \in DOMAIN calls : calls[c].pc = "done" /\ Quiet(c)

C28_SelfReferenceNeverResolves == ~Resolved

FormatTags == {"F0", "F1", "F2"}

\* C29: whatever the markup, inferFormat returns one of the tags F0, F1, F2.
C29_InferredFormatIsOneOfThree ==
    /\ inferred # Undefined => inferred \in FormatTags
    /\ inferredDom # Undefined => inferredDom \in FormatTags

\* the branch of row i of call c ended with a rejected callback
CallbackRejected(c, i) == calls[c].br[i].pc = "rejected"

\* C30: no call rejects; a level that has returned after mapping its listing
\* returns an entry for every row whose callback did not reject; and once
\* traverse has resolved no branch anywhere is still running.
C30_CallbackRejectionContained ==
    /\ \A c \in DOMAIN calls : calls[c].pc # "rejected"
    /\ \A c \in DOMAIN calls :
          (calls[c].pc = "done" /\ calls[c].fetch = "ok") =>
              \A i \in DOMAIN calls[c].br :
                  ~CallbackRejected(c, i) =>
                      \E k \in DOMAIN calls[c].result :
                          calls[c].result[k].path
                              = fullPath(calls[c].pathPrefix, calls[c].rootEntries[i])
    /\ Resolved => \A c \in DOMAIN calls : Quiet(c)

====
